---- MODULE Spec2Model ----
(***************************************************************************)
(* A model of swcgeom's branch-tree reduction (core/branch_tree.py), its   *)
(* geometric transforms (transforms/geometry.py) and the branch dataset    *)
(* that consumes both (datasets/pytorch/branch_dataset.py).                *)
(*                                                                         *)
(* Four specifications share the module, one per part of the program:     *)
(*   SpecBranchTree  BranchTree.from_tree and the BranchTree read surface  *)
(*   SpecGeometry    _Transform.__call__ and Normalizer.__call__           *)
(*   SpecLabel       the transforms' labels and BranchDataset.get_filename *)
(*   SpecDataset     BranchDataset.get_branches and numpy's error mode     *)
(* Each leaves the other parts' variables at their idle values.            *)
(***************************************************************************)
EXTENDS Integers, Sequences, FiniteSets

VARIABLES
    \* ---- BranchTree.from_tree -------------------------------------------
    tree,       \* the source tree: [nodes, pid]
    pc,         \* position in from_tree: "start" | "filing" | "done" | "failed"
    branches,   \* line 26: the Branches the extractor returned
    sub_id,     \* lines 28, 31
    sub_pid,    \* lines 29, 32
    id_map,     \* line 34: original id -> new id
    bt,         \* line 35: the reduced tree [n, pid, keys, branches]
    bi,         \* index of the next Branch the loop of line 39 files
    lookup,     \* the last read of the BranchTree: [op, idx, res, val]
    \* ---- transforms/geometry.py ----------------------------------------
    swc,        \* the tree handed to a transform: [n, id, pid, x, y, z, r]
    swc0,       \* swc as it was constructed (never assigned again)
    tf,         \* the transform called last
    out,        \* what the call gave: [status, tree]
    \* ---- BranchDataset: cache file names -------------------------------
    given,      \* the transforms of the datasets to construct, in order
    probe,      \* the Branch every dataset is built from
    files,      \* the cache files on disk: {[name, data]}
    made,       \* the datasets constructed: <<[save, branches]>>
    \* ---- BranchDataset.get_branches ------------------------------------
    swcs,       \* what each swc file of the folder does when processed
    seterr,     \* numpy's process-wide error settings
    seterr0,    \* the settings before the call (never assigned again)
    old_settings, \* line 92
    pos,        \* the position of the tree __getitem__ is asked for next
    collected,  \* the trees whose branches were added, by position
    dpc         \* position in get_branches

btVars == <<tree, pc, branches, sub_id, sub_pid, id_map, bt, bi, lookup>>

geoVars == <<swc, swc0, tf, out>>

labVars == <<given, probe, files, made>>

dsVars == <<swcs, seterr, seterr0, old_settings, pos, collected, dpc>>

vars == <<btVars, geoVars, labVars, dsVars>>

\* ---------------------------------------------------------------- bounds
\* Node ids of a source tree are drawn from 0..MaxId.
MaxId == 3

\* ---------------------------------------------------------------- helpers
Range(s) == {s[k] : k \in DOMAIN s}

Injective(s) == \A a, b \in DOMAIN s : s[a] = s[b] => a = b

\* Every ordering of a finite set, as a sequence.
Orderings(S) == {s \in [1..Cardinality(S) -> S] : Injective(s)}

RECURSIVE SumSeq(_)
SumSeq(s) == IF s = <<>> THEN 0 ELSE Head(s) + SumSeq(Tail(s))

RECURSIVE Flatten(_)
Flatten(ss) == IF ss = <<>> THEN <<>> ELSE Head(ss) \o Flatten(Tail(ss))

\* The parent sentinel of a root.
NoParent == -1

\* ------------------------------------------------------------- Node Tree
Ids == 0..MaxId

Roots(t) == {n \in t.nodes : t.pid[n] = NoParent}

Children(t, n) == {c \in t.nodes : t.pid[c] = n}

RECURSIVE ReachesRoot(_, _, _)
ReachesRoot(t, n, fuel) ==
    IF t.pid[n] = NoParent THEN TRUE
    ELSE IF fuel = 0 THEN FALSE
    ELSE ReachesRoot(t, t.pid[n], fuel - 1)

\* Single root, acyclic, connected.
ValidTree(t) ==
    /\ Cardinality(Roots(t)) = 1
    /\ \A n \in t.nodes : ReachesRoot(t, n, Cardinality(t.nodes))

Trees ==
    {t \in UNION {[nodes : {S}, pid : [S -> S \cup {NoParent}]] :
                     S \in (SUBSET Ids) \ {{}}} : ValidTree(t)}

RootOf(t) == CHOOSE n \in t.nodes : t.pid[n] = NoParent

Branching(t) == {n \in t.nodes : Cardinality(Children(t, n)) >= 2}

Tips(t) == {n \in t.nodes : Cardinality(Children(t, n)) = 0}

\* ------------------------------------------------------ Branch Extractor
\* An endpoint of a Branch: the root, a branching node or a tip.
IsEndpoint(t, n) == t.pid[n] = NoParent \/ Cardinality(Children(t, n)) # 1

\* The ids from the nearest endpoint above n down to n.
RECURSIVE PathFromEndpoint(_, _)
PathFromEndpoint(t, n) ==
    LET p == t.pid[n]
    IN  IF IsEndpoint(t, p) THEN <<p, n>>
        ELSE Append(PathFromEndpoint(t, p), n)

\* A Branch attached to its tree; detach() gives the independent copy.
Branch(t, last) == [ids |-> PathFromEndpoint(t, last), attached |-> TRUE]

detach(br) == [br EXCEPT !.attached = FALSE]

\* tree.get_branches(): one Branch per edge chain, in some order.
BranchSet(t) ==
    {Branch(t, n) : n \in {m \in t.nodes : t.pid[m] # NoParent /\ IsEndpoint(t, m)}}

First(br) == br.ids[1]

Last(br) == br.ids[Len(br.ids)]

\* ------------------------------------------------------ Sub-Tree Builder
\* A parent id outside the retained ids has no new id.
Undefined == -2

\* id_map: each retained id to its position in sub_id, counted from 0.
IdMapOf(ids) ==
    [k \in Range(ids) |->
        (CHOOSE j \in DOMAIN ids : ids[j] = k /\ \A m \in DOMAIN ids : ids[m] = k => m <= j) - 1]

to_sub_tree(ids, pids) ==
    LET m == IdMapOf(ids)
    IN  [sub_tree |-> [n |-> Len(ids),
                       pid |-> [j \in DOMAIN ids |->
                                   IF pids[j] = NoParent THEN NoParent
                                   ELSE IF pids[j] \in DOMAIN m THEN m[pids[j]]
                                   ELSE Undefined]],
         id_map |-> m]

\* ------------------------------------------------- BranchTree.from_tree
\* The id line 31 inserts as the root's.
InsertedRootId == 0

\* A from_tree that forgets line 31: no entry for the root.
SubIdWithoutRoot(brs) == [j \in DOMAIN brs |-> Last(brs[j])]

SubId(brs) == <<InsertedRootId>> \o [j \in DOMAIN brs |-> Last(brs[j])]

SubPid(brs) == <<NoParent>> \o [j \in DOMAIN brs |-> First(brs[j])]

NoLookup == [op |-> "none", idx |-> 0, res |-> "none", val |-> <<>>]

NoTree == [n |-> 0, id |-> <<>>, pid |-> <<>>, x |-> <<>>, y |-> <<>>, z |-> <<>>, r |-> <<>>]

NoTransform == [kind |-> "none", center |-> "origin", tm |-> <<>>, fmt |-> ""]

NoOutput == [status |-> "none", tree |-> NoTree]

BranchTreeIdle ==
    /\ tree = [nodes |-> {}, pid |-> <<>>]
    /\ pc = "idle"
    /\ branches = <<>>
    /\ sub_id = <<>>
    /\ sub_pid = <<>>
    /\ id_map = <<>>
    /\ bt = [n |-> 0, pid |-> <<>>, keys |-> <<>>, branches |-> <<>>]
    /\ bi = 1
    /\ lookup = NoLookup

GeometryIdle ==
    /\ swc = NoTree
    /\ swc0 = NoTree
    /\ tf = NoTransform
    /\ out = NoOutput

LabelIdle ==
    /\ given = <<>>
    /\ probe = NoTree
    /\ files = {}
    /\ made = <<>>

DatasetIdle ==
    /\ swcs = <<>>
    /\ seterr = "warn"
    /\ seterr0 = "warn"
    /\ old_settings = "unset"
    /\ pos = 0
    /\ collected = <<>>
    /\ dpc = "idle"

InitBranchTree ==
    /\ GeometryIdle
    /\ LabelIdle
    /\ DatasetIdle
    /\ tree \in Trees
    /\ pc = "start"
    /\ branches = <<>>
    /\ sub_id = <<>>
    /\ sub_pid = <<>>
    /\ id_map = <<>>
    /\ bt = [n |-> 0, pid |-> <<>>, keys |-> <<>>, branches |-> <<>>]
    /\ bi = 1
    /\ lookup = NoLookup

othersOfBranchTree == <<geoVars, labVars, dsVars>>

\* Lines 26-38: extract, build the id lists, build the sub tree.
FromTreeBuild ==
    /\ UNCHANGED othersOfBranchTree
    /\ pc = "start"
    /\ \E brs \in Orderings(BranchSet(tree)) :
        LET r == to_sub_tree(SubId(brs), SubPid(brs))
        IN  /\ branches' = brs
            /\ sub_id' = SubId(brs)
            /\ sub_pid' = SubPid(brs)
            /\ id_map' = r.id_map
            /\ bt' = [n |-> r.sub_tree.n, pid |-> r.sub_tree.pid,
                      keys |-> <<>>, branches |-> <<>>]
    /\ bi' = 1
    /\ pc' = "filing"
    /\ UNCHANGED <<tree, lookup>>

\* Lines 41-42: setdefault(idx, []) then append.
FileUnder(b, idx, br) ==
    IF idx \in Range(b.keys)
    THEN [b EXCEPT !.branches = [@ EXCEPT ![idx] = Append(@, br)]]
    ELSE [b EXCEPT !.keys = Append(@, idx),
                   !.branches = [k \in Range(b.keys) \cup {idx} |->
                                    IF k = idx THEN <<br>> ELSE b.branches[k]]]

\* Lines 39-42, one iteration: the Branch's first id has a new id.
FileBranch ==
    /\ UNCHANGED othersOfBranchTree
    /\ pc = "filing"
    /\ bi <= Len(branches)
    /\ First(branches[bi]) \in DOMAIN id_map
    /\ bt' = FileUnder(bt, id_map[First(branches[bi])], detach(branches[bi]))
    /\ bi' = bi + 1
    /\ UNCHANGED <<tree, pc, branches, sub_id, sub_pid, id_map, lookup>>

\* Line 40: id_map has no entry for the Branch's first id (KeyError).
FileBranchKeyError ==
    /\ UNCHANGED othersOfBranchTree
    /\ pc = "filing"
    /\ bi <= Len(branches)
    /\ First(branches[bi]) \notin DOMAIN id_map
    /\ pc' = "failed"
    /\ UNCHANGED <<tree, branches, sub_id, sub_pid, id_map, bt, bi, lookup>>

\* Line 44.
FromTreeReturn ==
    /\ UNCHANGED othersOfBranchTree
    /\ pc = "filing"
    /\ bi > Len(branches)
    /\ pc' = "done"
    /\ UNCHANGED <<tree, branches, sub_id, sub_pid, id_map, bt, bi, lookup>>

\* Lines 16-17: the values of the mapping, chained in insertion order.
get_branches(b) == Flatten([j \in DOMAIN b.keys |-> b.branches[b.keys[j]]])

\* Lines 19-20: a plain subscript of the mapping.
get_node_branches(b, idx) ==
    IF idx \in DOMAIN b.branches
    THEN [res |-> "ok", val |-> b.branches[idx]]
    ELSE [res |-> "KeyError", val |-> <<>>]

GetBranches ==
    /\ UNCHANGED othersOfBranchTree
    /\ pc = "done"
    /\ lookup' = [op |-> "get_branches", idx |-> 0, res |-> "ok",
                  val |-> get_branches(bt)]
    /\ UNCHANGED <<tree, pc, branches, sub_id, sub_pid, id_map, bt, bi>>

GetNodeBranches ==
    /\ UNCHANGED othersOfBranchTree
    /\ pc = "done"
    /\ \E idx \in 0..(MaxId + 1) :
        LET r == get_node_branches(bt, idx)
        IN  lookup' = [op |-> "get_node_branches", idx |-> idx,
                       res |-> r.res, val |-> r.val]
    /\ UNCHANGED <<tree, pc, branches, sub_id, sub_pid, id_map, bt, bi>>

NextBranchTree ==
    \/ FromTreeBuild
    \/ FileBranch
    \/ FileBranchKeyError
    \/ FromTreeReturn
    \/ GetBranches
    \/ GetNodeBranches

SpecBranchTree == InitBranchTree /\ [][NextBranchTree]_vars

\* ------------------------------------------------ claims: BranchTree
Built == pc \in {"filing", "done", "failed"}

Finished == pc \in {"done", "failed"}

RetainedIds(t) == {RootOf(t)} \cup Branching(t) \cup Tips(t)

\* The reduced tree's edges, <<parent, child>> in new ids.
ReducedEdges(b) == {<<b.pid[j], j - 1>> : j \in {m \in 1..b.n : b.pid[m] # NoParent}}

\* C1: once from_tree has built the sub tree, the ids it passed to the builder
\* are exactly {source root id} \cup {ids with >= 2 children} \cup {ids with no
\* child}, none repeated, and the reduced tree has exactly one edge per
\* Branch, from the new id of the Branch's first node to that of its last.
C1_RetainedIdsAndEdges ==
    Built =>
        /\ Range(sub_id) = RetainedIds(tree)
        /\ Injective(sub_id)
        /\ Cardinality(ReducedEdges(bt)) = Len(branches)
        /\ \A j \in DOMAIN branches :
               /\ First(branches[j]) \in DOMAIN id_map
               /\ Last(branches[j]) \in DOMAIN id_map
               /\ <<id_map[First(branches[j])], id_map[Last(branches[j])]>>
                     \in ReducedEdges(bt)

\* C2 as stated: the reduced tree has 1 + |branching nodes| + |tip nodes|
\* nodes, for every valid tree.
C2_CountAsStated ==
    Built => bt.n = 1 + Cardinality(Branching(tree)) + Cardinality(Tips(tree))

\* C2 amended: the reduced tree has 1 + |branching nodes other than the root|
\* + |tip nodes other than the root| nodes: the root is counted once, also
\* when it is itself a branching node or a tip.
C2_CountRootOnce ==
    Built => bt.n = 1 + Cardinality(Branching(tree) \ {RootOf(tree)})
                      + Cardinality(Tips(tree) \ {RootOf(tree)})

\* C2's case: from_tree returned the reduction of a tree whose root forks.
C2_Witness ==
    /\ pc = "done"
    /\ RootOf(tree) \in Branching(tree)
    /\ bt.n = Cardinality(RetainedIds(tree))
    /\ bt.n >= 3

FiledCounts(b) == [j \in DOMAIN b.keys |-> Len(b.branches[b.keys[j]])]

\* C3: when from_tree ends it has filed every extracted Branch exactly once,
\* as a detached copy with its original ids, under the new id of its first
\* node; the per-node counts sum to len(get_branches()) and to the number
\* of Branches extracted.
C3_EveryBranchFiledOnce ==
    Finished =>
        /\ \A k \in DOMAIN bt.branches : \A j \in DOMAIN bt.branches[k] :
               LET b == bt.branches[k][j]
               IN  /\ ~b.attached
                   /\ id_map[First(b)] = k
                   /\ \E m \in DOMAIN branches : branches[m].ids = b.ids
        /\ \A m \in DOMAIN branches :
               Cardinality({<<k, j>> \in UNION {{k} \X DOMAIN bt.branches[k] :
                                                  k \in DOMAIN bt.branches} :
                               bt.branches[k][j].ids = branches[m].ids}) = 1
        /\ SumSeq(FiledCounts(bt)) = Len(get_branches(bt))
        /\ Len(get_branches(bt)) = Len(branches)

\* C4: get_node_branches(n) succeeds for every node id n of the reduced tree
\* (with an empty sequence where nothing is filed) and fails with a lookup
\* error exactly when n is no node id of the reduced tree.
C4_LookupSucceedsOnEveryNode ==
    lookup.op = "get_node_branches" =>
        (lookup.res = "KeyError" <=> lookup.idx \notin 0..(bt.n - 1))

\* =================================================== transforms/geometry.py
\* ---------------------------------------------------------------- bounds
\* A tree handed to a transform has 1..MaxNodes nodes.
MaxNodes == 2

\* Angles are whole quarter turns, 1..MaxTurns of them, so that every
\* matrix entry is an integer.
MaxTurns == 2

\* ------------------------------------------------------------- the inputs
Points == {<<0, 0, 0>>, <<1, 2, -1>>, <<2, -1, 3>>}

\* The radii of a tree: all equal, or growing along the nodes.
RadiiOf(n) == {[j \in 1..n |-> 1], [j \in 1..n |-> j]}

Centers == {"root", "soma", "origin"}

Axes == {<<1, 0, 0>>, <<0, 1, 0>>, <<0, 0, 1>>}

Turns == 1..MaxTurns

\* A DictSWC of n nodes with ids 0..n-1; nothing makes its parent ids a tree.
MkSWC(n, pid, pts, r) ==
    [n |-> n, id |-> [j \in 1..n |-> j - 1], pid |-> pid,
     x |-> [j \in 1..n |-> pts[j][1]], y |-> [j \in 1..n |-> pts[j][2]],
     z |-> [j \in 1..n |-> pts[j][3]], r |-> r]

SWCs ==
    UNION {{MkSWC(n, pid, pts, r) :
               pid \in [1..n -> (0..(n - 1)) \cup {NoParent}],
               pts \in [1..n -> Points], r \in RadiiOf(n)} : n \in 1..MaxNodes}

\* ------------------------------------------------------ matrices (utils)
Dot4(u, v) == u[1] * v[1] + u[2] * v[2] + u[3] * v[3] + u[4] * v[4]

Column(m, c) == <<m[1][c], m[2][c], m[3][c], m[4][c]>>

\* numpy's a.dot(b) of an n x 4 by a 4 x 4.
dot(a, b) == [i \in DOMAIN a |-> [c \in 1..4 |-> Dot4(a[i], Column(b, c))]]

\* cos and sin of k quarter turns.
Cos(k) == CASE k % 4 = 0 -> 1 [] k % 4 = 1 -> 0 [] k % 4 = 2 -> -1 [] OTHER -> 0

Sin(k) == CASE k % 4 = 0 -> 0 [] k % 4 = 1 -> 1 [] k % 4 = 2 -> 0 [] OTHER -> -1

\* Row-vector convention, p' = [x, y, z, 1] . M: the offsets are the last row.
translate3d(tx, ty, tz) ==
    <<<<1, 0, 0, 0>>, <<0, 1, 0, 0>>, <<0, 0, 1, 0>>, <<tx, ty, tz, 1>>>>

scale3d(sx, sy, sz) ==
    <<<<sx, 0, 0, 0>>, <<0, sy, 0, 0>>, <<0, 0, sz, 0>>, <<0, 0, 0, 1>>>>

\* Rodrigues' rotation about the unit vector n by k quarter turns.
rotate3d(n, k) ==
    LET c == Cos(k)
        s == Sin(k)
        d == 1 - c
    IN  <<<<c + d * n[1] * n[1], d * n[1] * n[2] + s * n[3], d * n[1] * n[3] - s * n[2], 0>>,
          <<d * n[2] * n[1] - s * n[3], c + d * n[2] * n[2], d * n[2] * n[3] + s * n[1], 0>>,
          <<d * n[3] * n[1] + s * n[2], d * n[3] * n[2] - s * n[1], c + d * n[3] * n[3], 0>>,
          <<0, 0, 0, 1>>>>

rotate3d_x(k) == rotate3d(<<1, 0, 0>>, k)

rotate3d_y(k) == rotate3d(<<0, 1, 0>>, k)

rotate3d_z(k) == rotate3d(<<0, 0, 1>>, k)

\* ----------------------------------------------------- DictSWC (core)
xyz(t) == [j \in 1..t.n |-> <<t.x[j], t.y[j], t.z[j]>>]

xyzw(t) == [j \in 1..t.n |-> <<t.x[j], t.y[j], t.z[j], 1>>]

copy(t) == t

\* ------------------------------------------------------ number formatting
\* str() of a Python float holding a small whole number.
FloatStr(v) ==
    CASE v = 0 -> "0.0" [] v = 1 -> "1.0" [] v = 2 -> "2.0" [] v = 3 -> "3.0"
      [] v = -1 -> "-1.0" [] v = -2 -> "-2.0" [] OTHER -> "?"

\* str() of k quarter turns in radians.
ThetaStr(k) ==
    CASE k = 0 -> "0.0" [] k = 1 -> "1.5707963267948966"
      [] k = 2 -> "3.141592653589793" [] k = 3 -> "4.71238898038469"
      [] OTHER -> "?"

\* format(theta, ".4f") of k quarter turns in radians.
ThetaStr4f(k) ==
    CASE k = 0 -> "0.0000" [] k = 1 -> "1.5708" [] k = 2 -> "3.1416"
      [] k = 3 -> "4.7124" [] OTHER -> "?"

\* ------------------------------------------------------- the transforms
\* _Transform.__init__
Transform(kind, tm, center, fmt) ==
    [kind |-> kind, tm |-> tm, center |-> center, fmt |-> fmt]

Translate(tx, ty, tz) ==
    Transform("Translate", translate3d(tx, ty, tz), "origin",
              "Translate-" \o FloatStr(tx) \o "-" \o FloatStr(ty) \o "-" \o FloatStr(tz))

Scale(sx, sy, sz, center) ==
    Transform("Scale", scale3d(sx, sy, sz), center,
              "Scale-" \o FloatStr(sx) \o "-" \o FloatStr(sy) \o "-" \o FloatStr(sz))

Rotate(n, theta, center) ==
    Transform("Rotate", rotate3d(n, theta), center,
              "Rotate-" \o FloatStr(n[1]) \o "-" \o FloatStr(n[2]) \o "-" \o FloatStr(n[3])
                  \o "-" \o ThetaStr4f(theta))

RotateX(theta, center) ==
    Transform("RotateX", rotate3d_x(theta), center, "RotateX-" \o ThetaStr(theta))

RotateY(theta, center) ==
    Transform("RotateY", rotate3d_y(theta), center, "RotateX-" \o ThetaStr(theta))

RotateZ(theta, center) ==
    Transform("RotateZ", rotate3d_z(theta), center, "RotateX-" \o ThetaStr(theta))

Offsets == {<<1, 0, 0>>, <<-1, 2, 3>>}

Factors == {<<2, 2, 2>>, <<1, -1, 3>>}

Transforms ==
    {Translate(v[1], v[2], v[3]) : v \in Offsets}
    \cup {Scale(v[1], v[2], v[3], c) : v \in Factors, c \in Centers}
    \cup {Rotate(n, k, c) : n \in Axes, k \in Turns, c \in Centers}
    \cup {RotateX(k, c) : k \in Turns, c \in Centers}
    \cup {RotateY(k, c) : k \in Turns, c \in Centers}
    \cup {RotateZ(k, c) : k \in Turns, c \in Centers}

\* ------------------------------------------------- _Transform.__call__
\* np.nonzero(pid == -1)[0]: the positions of the parentless nodes.
ParentlessIndices(t) == {j \in 1..t.n : t.pid[j] = NoParent}

\* A lookup that takes the first parentless node, or node 0, without checking.
RootIndexUnchecked(t) ==
    IF ParentlessIndices(t) = {} THEN [ok |-> TRUE, idx |-> 1]
    ELSE [ok |-> TRUE,
          idx |-> CHOOSE j \in ParentlessIndices(t) : \A m \in ParentlessIndices(t) : j <= m]

\* Line 67: .item() raises ValueError unless the array holds one element.
RootIndex(t) ==
    IF Cardinality(ParentlessIndices(t)) = 1
    THEN [ok |-> TRUE, idx |-> CHOOSE j \in ParentlessIndices(t) : TRUE]
    ELSE [ok |-> FALSE, idx |-> 0]

\* The translations in the opposite order.
PivotMatrixReversed(tm, c) ==
    dot(dot(translate3d(c[1], c[2], c[3]), tm), translate3d(-c[1], -c[2], -c[3]))

\* Lines 69-73.
PivotMatrix(tm, c) ==
    dot(dot(translate3d(-c[1], -c[2], -c[3]), tm), translate3d(c[1], c[2], c[3]))

\* Lines 77-81: the copy with the first three columns of xyzw.dot(tm).
WithPositions(t, rows) ==
    [copy(t) EXCEPT !.x = [j \in 1..t.n |-> rows[j][1]],
                    !.y = [j \in 1..t.n |-> rows[j][2]],
                    !.z = [j \in 1..t.n |-> rows[j][3]]]

\* What the call leaves: x, the argument afterwards, and y, what it returned.
Raised(t, what) == [x |-> t, y |-> [status |-> what, tree |-> NoTree]]

\* A call that writes the new positions into its argument and returns it.
TransformCallInPlace(t, x) ==
    LET y == WithPositions(x, dot(xyzw(x), t.tm))
    IN  [x |-> y, y |-> [status |-> "ok", tree |-> y]]

\* Lines 64-82.
TransformCall(t, x) ==
    IF t.center \in {"root", "soma"}
    THEN LET i == RootIndex(x)
         IN  IF ~i.ok THEN Raised(x, "ValueError")
             ELSE [x |-> x,
                   y |-> [status |-> "ok",
                          tree |-> WithPositions(x,
                                      dot(xyzw(x), PivotMatrix(t.tm, xyz(x)[i.idx])))]]
    ELSE [x |-> x, y |-> [status |-> "ok", tree |-> WithPositions(x, dot(xyzw(x), t.tm))]]

\* ------------------------------------------------- Normalizer.__call__
\* A quotient of two integers; den = 0 is numpy's non-finite result.
Ratio(num, den) == [num |-> num, den |-> den]

Min(vs) == CHOOSE v \in Range(vs) : \A w \in Range(vs) : v <= w

Max(vs) == CHOOSE v \in Range(vs) : \A w \in Range(vs) : v >= w

\* Line 43: (vs - np.min(vs)) / np.max(vs)
NormalizeField(vs) == [j \in DOMAIN vs |-> Ratio(vs[j] - Min(vs), Max(vs))]

\* Lines 39-45.
NormalizerCall(x) ==
    [x |-> x,
     y |-> [status |-> "ok",
            tree |-> [copy(x) EXCEPT !.x = NormalizeField(x.x), !.y = NormalizeField(x.y),
                                     !.z = NormalizeField(x.z), !.r = NormalizeField(x.r)]]]

NormalizerLabel == [kind |-> "Normalizer", center |-> "origin", tm |-> <<>>, fmt |-> ""]

\* --------------------------------------------------------------- actions
othersOfGeometry == <<btVars, labVars, dsVars>>

InitGeometry ==
    /\ BranchTreeIdle
    /\ LabelIdle
    /\ DatasetIdle
    /\ swc \in SWCs
    /\ swc0 = swc
    /\ tf = NoTransform
    /\ out = NoOutput

CallTransform ==
    /\ out.status = "none"
    /\ \E t \in Transforms :
        LET r == TransformCall(t, swc)
        IN  /\ tf' = t
            /\ swc' = r.x
            /\ out' = r.y
    /\ UNCHANGED <<swc0, othersOfGeometry>>

CallNormalizer ==
    /\ out.status = "none"
    /\ LET r == NormalizerCall(swc)
       IN  /\ tf' = NormalizerLabel
           /\ swc' = r.x
           /\ out' = r.y
    /\ UNCHANGED <<swc0, othersOfGeometry>>

\* The caller drops the result and keeps the tree for the next call.
DropResult ==
    /\ out.status # "none"
    /\ out' = NoOutput
    /\ tf' = NoTransform
    /\ UNCHANGED <<swc, swc0, othersOfGeometry>>

NextGeometry ==
    \/ CallTransform
    \/ CallNormalizer
    \/ DropResult

SpecGeometry == InitGeometry /\ [][NextGeometry]_vars

\* ---------------------------------------------------- claims: geometry
IsTransformCall == tf.kind \notin {"none", "Normalizer"}

PivotRelative(t) == t.center \in {"root", "soma"}

\* C5: a transform called on a tree with exactly one root returns a tree with
\* the node count, ids, parent ids and radii of its argument, and leaves the
\* argument as it was, whatever the variant and the pivot mode.
C5_TopologyKeptInputUntouched ==
    (IsTransformCall /\ Cardinality(ParentlessIndices(swc0)) = 1) =>
        /\ out.status = "ok"
        /\ out.tree.n = swc0.n
        /\ out.tree.id = swc0.id
        /\ out.tree.pid = swc0.pid
        /\ out.tree.r = swc0.r
        /\ swc = swc0

\* C5's case: a root-pivoted rotation moved a node of a two-node tree.
C5_Witness ==
    /\ tf.kind = "RotateZ"
    /\ tf.center = "root"
    /\ out.status = "ok"
    /\ swc0.n >= 2
    /\ Cardinality(ParentlessIndices(swc0)) = 1
    /\ xyz(out.tree) # xyz(swc0)
    /\ swc = swc0

\* The linear part of a raw matrix applied to a row vector.
Linear(p, m) ==
    <<p[1] * m[1][1] + p[2] * m[2][1] + p[3] * m[3][1],
      p[1] * m[1][2] + p[2] * m[2][2] + p[3] * m[3][2],
      p[1] * m[1][3] + p[2] * m[2][3] + p[3] * m[3][3]>>

Plus(p, q) == <<p[1] + q[1], p[2] + q[2], p[3] + q[3]>>

Minus(p, q) == <<p[1] - q[1], p[2] - q[2], p[3] - q[3]>>

RootPosition(t) == xyz(t)[CHOOSE j \in ParentlessIndices(t) : TRUE]

\* C6: Scale and the Rotate family with pivot root or soma, on a tree whose
\* one root sits at c, leave the root at c and send every node at p to
\* (p - c) . M_raw + c; with pivot origin they send every node at p to
\* p . M_raw.
C6_PivotIsFixedPoint ==
    (IsTransformCall /\ tf.kind # "Translate" /\ out.status = "ok") =>
        IF PivotRelative(tf)
        THEN LET c == RootPosition(swc0)
             IN  /\ RootPosition(out.tree) = c
                 /\ \A j \in 1..swc0.n :
                       xyz(out.tree)[j] = Plus(Linear(Minus(xyz(swc0)[j], c), tf.tm), c)
        ELSE \A j \in 1..swc0.n : xyz(out.tree)[j] = Linear(xyz(swc0)[j], tf.tm)

\* C6's case: a root-pivoted scaling of a tree whose root is off the origin
\* moved the other node and left the root where it was.
C6_Witness ==
    /\ tf.kind = "Scale"
    /\ tf.center = "root"
    /\ out.status = "ok"
    /\ swc0.n = 2
    /\ RootPosition(swc0) # <<0, 0, 0>>
    /\ RootPosition(out.tree) = RootPosition(swc0)
    /\ xyz(out.tree) # xyz(swc0)

\* C7: a call fails, returning no tree, exactly when the transform is
\* pivot-relative (pivot root or soma) and the tree has no or several
\* parentless nodes; Translate and origin-pivot transforms never fail.
C7_AmbiguousRootFails ==
    IsTransformCall =>
        /\ (out.status = "ValueError")
              <=> (PivotRelative(tf) /\ Cardinality(ParentlessIndices(swc0)) # 1)
        /\ out.status = "ValueError" => out.tree = NoTree
        /\ out.status \in {"ok", "ValueError"}
        /\ (tf.kind = "Translate" \/ tf.center = "origin") => out.status = "ok"

\* C7's case: a soma-pivoted rotation failed on a tree with two parentless
\* nodes.
C7_Witness ==
    /\ tf.kind = "RotateY"
    /\ tf.center = "soma"
    /\ Cardinality(ParentlessIndices(swc0)) = 2
    /\ out.status = "ValueError"

\* C7's other case: a Translate went through on a tree with no parentless
\* node.
C7_TranslateWitness ==
    /\ tf.kind = "Translate"
    /\ ParentlessIndices(swc0) = {}
    /\ out.status = "ok"

IsZero(q) == q.den # 0 /\ q.num = 0

IsOne(q) == q.den # 0 /\ q.num = q.den

InUnitRange(q) == q.den # 0 /\ 0 <= q.num * q.den /\ q.num * q.den <= q.den * q.den

UnitScaled(before, after) ==
    Cardinality(Range(before)) > 1 =>
        /\ \A j \in DOMAIN after : InUnitRange(after[j])
        /\ \E j \in DOMAIN after : IsZero(after[j])
        /\ \E j \in DOMAIN after : IsOne(after[j])

\* C8: Normalizer maps every x, y, z and radius field that is not constant
\* onto [0, 1]: each value lands in [0, 1], the smallest on 0 and the largest
\* on 1; the argument is left as it was.
C8_NormalizedToUnitRange ==
    tf.kind = "Normalizer" =>
        /\ UnitScaled(swc0.x, out.tree.x)
        /\ UnitScaled(swc0.y, out.tree.y)
        /\ UnitScaled(swc0.z, out.tree.z)
        /\ UnitScaled(swc0.r, out.tree.r)
        /\ swc = swc0

\* ===================================== datasets/pytorch/branch_dataset.py
\* ------------------------------------------- labels and cache file names
\* Lines 83-86: a dataset without a transform has the bare name.
get_filename(t) ==
    LET trans_name == IF t.kind # "none" THEN "_" \o t.fmt ELSE ""
    IN  "BranchDataset" \o trans_name \o ".pt"

\* Lines 95-97 on one Branch: a failing transform leaves nothing (line 98).
TransformedBranches(t, x) ==
    IF t.kind = "none" THEN <<x>>
    ELSE LET r == TransformCall(t, x)
         IN  IF r.y.status = "ok" THEN <<r.y.tree>> ELSE <<>>

\* The Branches the datasets are built from: a root off the origin and one
\* more node.
Probes ==
    {MkSWC(2, <<NoParent, 0>>, <<<<1, 2, -1>>, <<2, -1, 3>>>>, <<1, 1>>),
     MkSWC(2, <<NoParent, 0>>, <<<<0, 0, 0>>, <<1, 2, -1>>>>, <<1, 2>>)}

othersOfLabel == <<btVars, geoVars, dsVars>>

InitLabel ==
    /\ BranchTreeIdle
    /\ GeometryIdle
    /\ DatasetIdle
    /\ given \in (Transforms \cup {NoTransform}) \X (Transforms \cup {NoTransform})
    /\ probe \in Probes
    /\ files = {}
    /\ made = <<>>

\* Lines 49-65 with save = True and no file of that name yet: compute the
\* branches and save them under the name.
NewDatasetComputes ==
    /\ Len(made) < Len(given)
    /\ LET t == given[Len(made) + 1]
           name == get_filename(t)
           brs == TransformedBranches(t, probe)
       IN  /\ ~\E f \in files : f.name = name
           /\ files' = files \cup {[name |-> name, data |-> brs]}
           /\ made' = Append(made, [save |-> name, branches |-> brs])
    /\ UNCHANGED <<given, probe, othersOfLabel>>

\* Lines 59-61: a file of that name exists and is loaded instead.
NewDatasetLoads ==
    /\ Len(made) < Len(given)
    /\ LET t == given[Len(made) + 1]
           name == get_filename(t)
       IN  /\ \E f \in files :
                /\ f.name = name
                /\ made' = Append(made, [save |-> name, branches |-> f.data])
    /\ UNCHANGED <<given, probe, files, othersOfLabel>>

NextLabel ==
    \/ NewDatasetComputes
    \/ NewDatasetLoads

SpecLabel == InitLabel /\ [][NextLabel]_vars

\* C9: two transforms that differ in their variant, or in a parameter that
\* changes what they return, have different labels, so two datasets with the
\* same cache file name hold the same branches: each dataset holds what its
\* own transform makes of the Branches.
C9_LabelsTellTransformsApart ==
    /\ \A a, b \in DOMAIN made :
          made[a].save = made[b].save
              => TransformedBranches(given[a], probe) = TransformedBranches(given[b], probe)
    /\ \A a \in DOMAIN made : made[a].branches = TransformedBranches(given[a], probe)

\* ------------------------------------------- BranchDataset.get_branches
\* ---------------------------------------------------------------- bounds
\* The folder holds at most MaxTrees swc files.
MaxTrees == 3

\* What a file does: it loads and gives its branches; a numpy error is raised
\* inside the try of line 94; or loading or reducing it raises in
\* TreeFolderDataset.__getitem__, outside the try.
FileKinds == {"ok", "error_in_try", "error_in_getitem"}

ErrModes == {"ignore", "warn", "raise"}

othersOfDataset == <<btVars, geoVars, labVars>>

InitDataset ==
    /\ BranchTreeIdle
    /\ GeometryIdle
    /\ LabelIdle
    /\ swcs \in UNION {[1..n -> FileKinds] : n \in 0..MaxTrees}
    /\ seterr \in ErrModes
    /\ seterr0 = seterr
    /\ old_settings = "unset"
    /\ pos = 0
    /\ collected = <<>>
    /\ dpc = "start"

\* Lines 90-92: np.seterr(all="raise") returns the settings it replaces.
GetBranchesStart ==
    /\ dpc = "start"
    /\ old_settings' = seterr
    /\ seterr' = "raise"
    /\ pos' = 0
    /\ collected' = <<>>
    /\ dpc' = "iterating"
    /\ UNCHANGED <<swcs, seterr0, othersOfDataset>>

\* Line 93, tree_folder_dataset.py lines 58-60: the next tree is loaded and
\* reduced.
NextTree ==
    /\ dpc = "iterating"
    /\ pos < Len(swcs)
    /\ swcs[pos + 1] # "error_in_getitem"
    /\ dpc' = "in_try"
    /\ UNCHANGED <<swcs, seterr, seterr0, old_settings, pos, collected, othersOfDataset>>

\* Line 93: __getitem__ raises; nothing in get_branches catches it.
NextTreeRaises ==
    /\ dpc = "iterating"
    /\ pos < Len(swcs)
    /\ swcs[pos + 1] = "error_in_getitem"
    /\ dpc' = "raised"
    /\ UNCHANGED <<swcs, seterr, seterr0, old_settings, pos, collected, othersOfDataset>>

\* Lines 95-97: the tree's branches are added.
TreeCollected ==
    /\ dpc = "in_try"
    /\ swcs[pos + 1] = "ok"
    /\ collected' = Append(collected, pos + 1)
    /\ pos' = pos + 1
    /\ dpc' = "iterating"
    /\ UNCHANGED <<swcs, seterr, seterr0, old_settings, othersOfDataset>>

\* Lines 98-101: the tree is skipped with a warning.
TreeSkipped ==
    /\ dpc = "in_try"
    /\ swcs[pos + 1] = "error_in_try"
    /\ pos' = pos + 1
    /\ dpc' = "iterating"
    /\ UNCHANGED <<swcs, seterr, seterr0, old_settings, collected, othersOfDataset>>

\* Lines 103-104: self.swcs[idx] raises IndexError, the loop ends, the
\* settings are put back.
GetBranchesReturn ==
    /\ dpc = "iterating"
    /\ pos = Len(swcs)
    /\ seterr' = old_settings
    /\ dpc' = "returned"
    /\ UNCHANGED <<swcs, seterr0, old_settings, pos, collected, othersOfDataset>>

NextDataset ==
    \/ GetBranchesStart
    \/ NextTree
    \/ NextTreeRaises
    \/ TreeCollected
    \/ TreeSkipped
    \/ GetBranchesReturn

SpecDataset == InitDataset /\ [][NextDataset]_vars

Left == dpc \in {"returned", "raised"}

\* C10: however get_branches is left (returning, or with an exception raised
\* while a tree is loaded or reduced), numpy's error settings are those from
\* before the call; and a failing tree is the only one skipped: the branches
\* of every other tree are collected.
C10_ErrorModeRestored ==
    Left =>
        /\ seterr = seterr0
        /\ Range(collected) = {k \in DOMAIN swcs : swcs[k] = "ok"}

====
